---- MODULE Spec2Model ----
(***************************************************************************)
(* Model of src/updater.py: the Lon.exe self-updater.                      *)
(*                                                                         *)
(* The disk is modelled by the content of the four places the updater      *)
(* touches: the install path, the candidate temporary file, the staging    *)
(* file "<install_path>.new" and the backup directory.  A file is either   *)
(* "absent", a complete blob, or "part" (a truncated / partially written   *)
(* file).  main() is cut into one action per statement that can fail or    *)
(* that touches the disk; the helper functions that copy files are cut at  *)
(* the points where the destination is opened and where the copy ends, so  *)
(* that the intermediate disk states are states of the model.              *)
(*                                                                         *)
(* Environment: the protected process may be started again by its          *)
(* environment, a terminate request takes effect asynchronously, the       *)
(* wall clock advances, and the candidate temporary file may be removed    *)
(* by somebody else (a temp-directory cleaner).  os.remove of an existing  *)
(* file is taken to succeed; os.remove of an absent file raises.  As the   *)
(* source says (line 167), the application runs on Windows only.           *)
(***************************************************************************)
EXTENDS Naturals, Integers, Sequences, FiniteSets, TLC

\* ---- bounds of the model -------------------------------------------------
MaxClock == 1
MaxRestarts == 1

\* ---- program constants -----------------------------------------------------
\* range(10) in terminate_process
MaxPolls == 10
\* sys.exit(0)
ExitSuccess == 0
\* sys.exit(1), and the exit code of an uncaught exception
ExitFailure == 1

\* ---- values ---------------------------------------------------------------
Blobs == {"A", "B"}
Files == Blobs \cup {"absent", "part"}
Stamps == 0..MaxClock
NoBackup == -1
NoDigest == << >>

\* str.lower() on one character of a hex digest
LowerChar(ch) ==
  CASE ch = "A" -> "a"
    [] ch = "B" -> "b"
    [] OTHER -> ch

\* str.lower()
Lower(s) == [i \in DOMAIN s |-> LowerChar(s[i])]

\* hashlib.sha256(...).hexdigest(): lowercase hex, one digest per content
sha256_of_file(f) ==
  CASE f = "A" -> <<"a", "1">>
    [] f = "B" -> <<"b", "2">>
    [] OTHER -> <<"1", "2">>

\* first token of the checksum file, as published (any casing); NoDigest
\* stands for an empty file
RemoteTokens ==
  { <<"a", "1">>, <<"A", "1">>, <<"b", "2">>, <<"B", "2">>, NoDigest }

\* variant: the comparison of line 277 written with == instead of !=
DigestMismatch_inverted(a, b) == Lower(a) = Lower(b)

\* new_digest.lower() != expected_digest.lower()
DigestMismatch(a, b) == Lower(a) /= Lower(b)

\* os.path.isfile
isfile(f) == f /= "absent"

VARIABLES
  pc,               \* position in main()
  cfg,              \* "nofile" | "missing" | "ok"
  os_name,          \* "nt" | "posix"
  install_path,     \* content of the file at install_path
  preInstall,       \* content of install_path when the run started
  candidate,        \* content of the candidate temporary file on disk
  download_path,    \* "None" | "tmp": the variable of main()
  tmp_dest,         \* content of install_path + '.new'
  src_open,         \* content of the source file a running copy has open
  backup_dir,       \* [Stamps -> Files]: backup files by timestamped name
  preBackups,       \* backup_dir when the run started
  backup_path,      \* NoBackup | name backup_file chose (its local)
  backup_created,   \* NoBackup | timestamp of the backup of this run
  now,              \* wall clock, in seconds
  running,          \* the protected process is running
  dying,            \* a terminate request is taking effect
  restarts,         \* how often the environment started the process
  polls,            \* loop counter of terminate_process
  expected_digest,
  new_digest,
  exitCode,         \* -1 while running, else the process exit code
  outcome,          \* the last outcome the run logged
  unhandled,        \* the run ended with an uncaught exception
  hist              \* history of the run (record of flags)

vars == << pc, cfg, os_name, install_path, preInstall, candidate,
           download_path, tmp_dest, src_open, backup_dir, preBackups,
           backup_path, backup_created, now, running, dying, restarts, polls,
           expected_digest, new_digest, exitCode, outcome, unhandled, hist >>

disk == << install_path, candidate, tmp_dest, backup_dir >>
env == << now, running, dying, restarts >>
locals == << download_path, src_open, backup_path, backup_created, polls,
             expected_digest, new_digest >>
fixed == << cfg, os_name, preInstall, preBackups >>

NoHist ==
  [ verified |-> FALSE,       \* the candidate digest matched the reference
    uptodate |-> FALSE,       \* the comparison of line 290 was true
    asked |-> FALSE,          \* confirm_update was called
    confirmed |-> FALSE,      \* confirm_update returned True
    kill |-> FALSE,           \* taskkill was issued
    kill_raised |-> FALSE,    \* subprocess.run of taskkill raised
    guard |-> "none",         \* result of terminate_process
    blind |-> FALSE,          \* tasklist failed while the process ran
    had_install |-> FALSE,    \* isfile(install_path) at line 311
    replace |-> "none",       \* result of atomic_replace
    ar_stage |-> "none",      \* statement of atomic_replace that raised
    live_replace |-> FALSE,   \* the process ran when os.replace succeeded
    rollback |-> "none",      \* result of the rollback copy
    made_tmp |-> FALSE ]      \* a candidate temporary file was created

\* the backup directories a run may start with: empty, or one earlier backup
InitBackups ==
  { [s \in Stamps |-> "absent"] } \cup
  { [s \in Stamps |-> IF s = t THEN b ELSE "absent"] : t \in Stamps, b \in Blobs }

Init ==
  /\ pc = "start"
  /\ cfg \in {"nofile", "missing", "ok"}
  /\ os_name \in {"nt", "posix"}
  /\ install_path \in Blobs \cup {"absent"}
  /\ preInstall = install_path
  /\ candidate = "absent"
  /\ download_path = "None"
  /\ tmp_dest = "absent"
  /\ src_open = "absent"
  /\ backup_dir \in InitBackups
  /\ preBackups = backup_dir
  /\ backup_path = NoBackup
  /\ backup_created = NoBackup
  /\ now = 0
  /\ running \in (IF os_name = "nt" THEN BOOLEAN ELSE {FALSE})
  /\ dying = FALSE
  /\ restarts = 0
  /\ polls = 0
  /\ expected_digest = NoDigest
  /\ new_digest = NoDigest
  /\ exitCode = -1
  /\ outcome = "none"
  /\ unhandled = FALSE
  /\ hist = NoHist

\* sys.exit(code) after the log line `what`
Exit(code, what) ==
  /\ pc' = "done"
  /\ exitCode' = code
  /\ outcome' = what
  /\ unhandled' = FALSE

\* an exception nobody catches: traceback, exit code 1
Raise(what) ==
  /\ pc' = "done"
  /\ exitCode' = ExitFailure
  /\ outcome' = what
  /\ unhandled' = TRUE

Goto(l) == pc' = l /\ UNCHANGED << exitCode, outcome, unhandled >>

\* os.remove(download_path) outside try: raises when the file is absent
RemoveOrRaise(code, what) ==
  /\ candidate' = "absent"
  /\ IF candidate = "absent" THEN Raise(what) ELSE Exit(code, what)

\* lines 235-256: configuration file and required fields
CheckConfig ==
  /\ pc = "start"
  /\ IF cfg = "ok"
       THEN Goto("fetchref")
       ELSE Exit(ExitFailure, "ConfigMissing")
  /\ UNCHANGED << disk, env, locals, fixed, hist >>

\* lines 263-267 and read_remote_checksum: the checksum download fails, the
\* file is empty, or its first token is the reference digest
FetchReference ==
  /\ pc = "fetchref"
  /\ \E ok \in BOOLEAN, tok \in RemoteTokens :
       IF ok /\ tok /= NoDigest
         THEN /\ expected_digest' = tok
              /\ Goto("download")
         ELSE /\ expected_digest' = NoDigest
              /\ Exit(ExitFailure, "ReferenceUnavailable")
  /\ UNCHANGED << disk, env, fixed, hist, download_path, src_open,
                  backup_path, backup_created, polls, new_digest >>

\* lines 270-273 and download_to_temp: the request fails before mkstemp
\* ("early"), the copy of the body fails after mkstemp ("late", the
\* temporary file stays and None is returned), or the body is stored
download_to_temp ==
  /\ pc = "download"
  /\ \E res \in {"early", "late", "ok"}, body \in Blobs \cup {"part"} :
       CASE res = "early" ->
              /\ UNCHANGED << candidate, download_path, hist >>
              /\ Exit(ExitFailure, "DownloadFailed")
         [] res = "late" ->
              /\ candidate' = "part"
              /\ hist' = [hist EXCEPT !.made_tmp = TRUE]
              /\ UNCHANGED download_path
              /\ Exit(ExitFailure, "DownloadFailed")
         [] res = "ok" ->
              /\ candidate' = body
              /\ download_path' = "tmp"
              /\ hist' = [hist EXCEPT !.made_tmp = TRUE]
              /\ Goto("hash")
  /\ UNCHANGED << install_path, tmp_dest, backup_dir, env, fixed, src_open,
                  backup_path, backup_created, polls, expected_digest,
                  new_digest >>

\* lines 275-284: hash the candidate (an unreadable or absent file raises,
\* uncaught), compare with the reference, remove the candidate on mismatch
VerifyChecksum ==
  /\ pc = "hash"
  /\ \E readable \in BOOLEAN :
       IF ~readable \/ candidate = "absent"
         THEN /\ UNCHANGED << candidate, new_digest, hist >>
              /\ Raise("HashFailed")
         ELSE /\ new_digest' = sha256_of_file(candidate)
              /\ IF DigestMismatch(sha256_of_file(candidate), expected_digest)
                   THEN /\ candidate' = "absent"
                        /\ UNCHANGED hist
                        /\ Exit(ExitFailure, "ChecksumMismatch")
                   ELSE /\ UNCHANGED candidate
                        /\ hist' = [hist EXCEPT !.verified = TRUE]
                        /\ Goto("uptodate")
  /\ UNCHANGED << install_path, tmp_dest, backup_dir, env, fixed,
                  download_path, src_open, backup_path, backup_created,
                  polls, expected_digest >>

\* lines 287-295: compare the installed file with the candidate.  The
\* except clause also catches an os.remove that raises, and main() goes on
UpToDateCheck ==
  /\ pc = "uptodate"
  /\ \E readable \in BOOLEAN :
       IF isfile(install_path) /\ readable
            /\ Lower(sha256_of_file(install_path)) = Lower(new_digest)
         THEN /\ hist' = [hist EXCEPT !.uptodate = TRUE]
              /\ IF candidate = "absent"
                   THEN /\ pc' = "confirm"
                        /\ outcome' = "AlreadyUpToDate"
                        /\ UNCHANGED << exitCode, unhandled, candidate >>
                   ELSE /\ candidate' = "absent"
                        /\ Exit(ExitSuccess, "AlreadyUpToDate")
         ELSE /\ UNCHANGED << hist, candidate >>
              /\ Goto("confirm")
  /\ UNCHANGED << install_path, tmp_dest, backup_dir, env, fixed, locals >>

\* variant: main() goes on whatever confirm_update returns
ConfirmUpdate_ignores_answer ==
  /\ pc = "confirm"
  /\ \E ans \in {"yes", "no"} :
       /\ hist' = [hist EXCEPT !.asked = TRUE, !.confirmed = (ans = "yes")]
       /\ UNCHANGED candidate
       /\ Goto("terminate")
  /\ UNCHANGED << install_path, tmp_dest, backup_dir, env, fixed, locals >>

\* lines 298-301 and confirm_update: yes, no, or input() raises (EOF)
ConfirmUpdate ==
  /\ pc = "confirm"
  /\ \E ans \in {"yes", "no", "eof"} :
       CASE ans = "yes" ->
              /\ hist' = [hist EXCEPT !.asked = TRUE, !.confirmed = TRUE]
              /\ UNCHANGED candidate
              /\ Goto("terminate")
         [] ans = "no" ->
              /\ hist' = [hist EXCEPT !.asked = TRUE]
              /\ RemoveOrRaise(ExitSuccess, "UserDeclined")
         [] ans = "eof" ->
              /\ hist' = [hist EXCEPT !.asked = TRUE]
              /\ UNCHANGED candidate
              /\ Raise("ConfirmFailed")
  /\ UNCHANGED << install_path, tmp_dest, backup_dir, env, fixed, locals >>

\* variant: a tasklist that fails counts as "running"
is_process_running_failsafe(qok) == os_name = "nt" /\ (~qok \/ running)

\* is_process_running: False off Windows and when tasklist fails (qok)
is_process_running(qok) == os_name = "nt" /\ qok /\ running

\* the query failed (lines 156-157) and hid a running process
Unseen(qok) == os_name = "nt" /\ ~qok /\ running

\* terminate_process, lines 166-169: nothing to do
TerminateEntry ==
  /\ pc = "terminate"
  /\ \E qok \in BOOLEAN :
       IF os_name /= "nt" \/ ~is_process_running(qok)
         THEN /\ hist' = [hist EXCEPT !.guard = "Stopped",
                                      !.blind = @ \/ Unseen(qok)]
              /\ pc' = "backup"
         ELSE /\ hist' = [hist EXCEPT !.blind = @ \/ Unseen(qok)]
              /\ pc' = "taskkill"
  /\ UNCHANGED << disk, env, fixed, locals, exitCode, outcome, unhandled >>

\* terminate_process, line 173: taskkill /T /F.  subprocess.run may raise
\* (returns False, lines 183-185); the request may be refused; otherwise
\* the process goes away some time later
TaskKill ==
  /\ pc = "taskkill"
  /\ \E res \in {"raise", "refused", "accepted"} :
       CASE res = "raise" ->
              /\ hist' = [hist EXCEPT !.kill = TRUE, !.kill_raised = TRUE,
                                      !.guard = "StillRunning"]
              /\ pc' = "notstopped"
              /\ UNCHANGED << dying, polls >>
         [] res = "refused" ->
              /\ hist' = [hist EXCEPT !.kill = TRUE]
              /\ pc' = "poll"
              /\ polls' = 0
              /\ UNCHANGED dying
         [] res = "accepted" ->
              /\ hist' = [hist EXCEPT !.kill = TRUE]
              /\ pc' = "poll"
              /\ polls' = 0
              /\ dying' = running
  /\ UNCHANGED << disk, fixed, now, running, restarts, download_path,
                  src_open, backup_path, backup_created, expected_digest,
                  new_digest, exitCode, outcome, unhandled >>

\* terminate_process, lines 175-178: one iteration of the poll loop
PollProcess ==
  /\ pc = "poll"
  /\ IF polls = MaxPolls
       THEN pc' = "tp_final" /\ UNCHANGED << polls, hist >>
       ELSE \E qok \in BOOLEAN :
              /\ hist' = [hist EXCEPT !.blind = @ \/ Unseen(qok)]
              /\ IF ~is_process_running(qok)
                   THEN pc' = "tp_final" /\ UNCHANGED polls
                   ELSE pc' = "poll" /\ polls' = polls + 1
  /\ UNCHANGED << disk, env, fixed, download_path, src_open,
                  backup_path, backup_created, expected_digest, new_digest,
                  exitCode, outcome, unhandled >>

\* variant: terminate_process returns True after the loop without the check
\* of line 179
TerminateResult_no_recheck ==
  /\ pc = "tp_final"
  /\ hist' = [hist EXCEPT !.guard = "Stopped"]
  /\ pc' = "backup"
  /\ UNCHANGED << disk, env, fixed, locals, exitCode, outcome, unhandled >>

\* variant: main() goes on to the backup whatever terminate_process returns
TerminateResult_ignored ==
  /\ pc = "tp_final"
  /\ \E qok \in BOOLEAN :
       IF is_process_running(qok)
         THEN hist' = [hist EXCEPT !.guard = "StillRunning"]
         ELSE hist' = [hist EXCEPT !.guard = "Stopped"]
  /\ pc' = "backup"
  /\ UNCHANGED << disk, env, fixed, locals, exitCode, outcome, unhandled >>

\* terminate_process, lines 179-182: the last check decides the result
TerminateResult ==
  /\ pc = "tp_final"
  /\ \E qok \in BOOLEAN :
       IF is_process_running(qok)
         THEN /\ hist' = [hist EXCEPT !.guard = "StillRunning"]
              /\ pc' = "notstopped"
         ELSE /\ hist' = [hist EXCEPT !.guard = "Stopped",
                                      !.blind = @ \/ Unseen(qok)]
              /\ pc' = "backup"
  /\ UNCHANGED << disk, env, fixed, locals, exitCode, outcome, unhandled >>

\* lines 304-307
AbortNotStopped ==
  /\ pc = "notstopped"
  /\ RemoveOrRaise(ExitFailure, "ProcessNotStopped")
  /\ UNCHANGED << install_path, tmp_dest, backup_dir, env, fixed, locals,
                  hist >>

\* variant: backup_file is called without the isfile test of line 311
BackupStep_always ==
  /\ pc = "backup"
  /\ hist' = [hist EXCEPT !.had_install = isfile(install_path)]
  /\ Goto("bk_mkdirs")
  /\ UNCHANGED << disk, env, fixed, locals >>

\* lines 310-312: a backup is taken only when an installed file exists
BackupStep ==
  /\ pc = "backup"
  /\ hist' = [hist EXCEPT !.had_install = isfile(install_path)]
  /\ IF isfile(install_path)
       THEN Goto("bk_mkdirs")
       ELSE Goto("ar_mkdirs")
  /\ UNCHANGED << disk, env, fixed, locals >>

\* backup_file, lines 194-198: makedirs, then the name from the clock
bk_mkdirs ==
  /\ pc = "bk_mkdirs"
  /\ \E ok \in BOOLEAN :
       IF ok
         THEN backup_path' = now /\ Goto("bk_copy")
         ELSE UNCHANGED backup_path /\ Goto("backupfailed")
  /\ UNCHANGED << disk, env, fixed, hist, download_path, src_open,
                  backup_created, polls, expected_digest, new_digest >>

\* backup_file, line 199: shutil.copy2 opens the source and then the
\* destination for writing, which truncates a file of the same name
bk_copy ==
  /\ pc = "bk_copy"
  /\ \E opened \in BOOLEAN :
       IF opened
         THEN /\ backup_dir' = [backup_dir EXCEPT ![backup_path] = "part"]
              /\ Goto("bk_copying")
         ELSE /\ UNCHANGED backup_dir
              /\ Goto("backupfailed")
  /\ UNCHANGED << install_path, candidate, tmp_dest, env, fixed, hist,
                  locals >>

\* variant: the except clause of backup_file returns backup_path
bk_copying_returns_path ==
  /\ pc = "bk_copying"
  /\ \E ok \in BOOLEAN :
       /\ backup_dir' = IF ok
                          THEN [backup_dir EXCEPT ![backup_path] = install_path]
                          ELSE backup_dir
       /\ backup_created' = backup_path
       /\ Goto("ar_mkdirs")
  /\ UNCHANGED << install_path, candidate, tmp_dest, env, fixed, hist,
                  download_path, src_open, backup_path, polls,
                  expected_digest, new_digest >>

\* backup_file, lines 199-204: the copy ends, or fails part-way and the
\* except clause returns None without removing what was written
bk_copying ==
  /\ pc = "bk_copying"
  /\ \E ok \in BOOLEAN :
       IF ok
         THEN /\ backup_dir' = [backup_dir EXCEPT ![backup_path] = install_path]
              /\ backup_created' = backup_path
              /\ Goto("ar_mkdirs")
         ELSE /\ UNCHANGED << backup_dir, backup_created >>
              /\ Goto("backupfailed")
  /\ UNCHANGED << install_path, candidate, tmp_dest, env, fixed, hist,
                  download_path, src_open, backup_path, polls,
                  expected_digest, new_digest >>

\* lines 313-316
AbortBackupFailed ==
  /\ pc = "backupfailed"
  /\ RemoveOrRaise(ExitFailure, "BackupFailed")
  /\ UNCHANGED << install_path, tmp_dest, backup_dir, env, fixed, locals,
                  hist >>

\* atomic_replace, lines 215-218
ar_mkdirs ==
  /\ pc = "ar_mkdirs"
  /\ \E ok \in BOOLEAN :
       IF ok
         THEN /\ hist' = [hist EXCEPT !.replace = "started"]
              /\ Goto("ar_copy")
         ELSE /\ hist' = [hist EXCEPT !.replace = "started",
                                      !.ar_stage = "makedirs"]
              /\ Goto("ar_except")
  /\ UNCHANGED << disk, env, fixed, locals >>

\* variant: the copy goes to dest itself instead of dest + '.new'
ar_copy_direct ==
  /\ pc = "ar_copy"
  /\ \E opened \in BOOLEAN :
       IF opened /\ isfile(candidate)
         THEN /\ install_path' = "part"
              /\ src_open' = candidate
              /\ Goto("ar_copying")
         ELSE /\ UNCHANGED << install_path, src_open >>
              /\ Goto("ar_except")
  /\ UNCHANGED << tmp_dest, candidate, backup_dir, env, fixed, hist,
                  download_path, backup_path, backup_created, polls,
                  expected_digest, new_digest >>

\* atomic_replace, line 219: copy2(src, tmp_dest) opens src, then creates
\* dest + '.new'
ar_copy ==
  /\ pc = "ar_copy"
  /\ \E opened \in BOOLEAN :
       IF opened /\ isfile(candidate)
         THEN /\ tmp_dest' = "part"
              /\ src_open' = candidate
              /\ UNCHANGED hist
              /\ Goto("ar_copying")
         ELSE /\ UNCHANGED << tmp_dest, src_open >>
              /\ hist' = [hist EXCEPT !.ar_stage = "copy"]
              /\ Goto("ar_except")
  /\ UNCHANGED << install_path, candidate, backup_dir, env, fixed,
                  download_path, backup_path, backup_created, polls,
                  expected_digest, new_digest >>

\* atomic_replace, line 219: the copy into dest + '.new' ends or fails
ar_copying ==
  /\ pc = "ar_copying"
  /\ \E ok \in BOOLEAN :
       IF ok
         THEN /\ tmp_dest' = src_open
              /\ UNCHANGED hist
              /\ Goto("ar_replace")
         ELSE /\ UNCHANGED tmp_dest
              /\ hist' = [hist EXCEPT !.ar_stage = "copy"]
              /\ Goto("ar_except")
  /\ UNCHANGED << install_path, candidate, backup_dir, env, fixed, locals >>

\* atomic_replace, lines 221-222: os.replace(tmp_dest, dest)
ar_replace ==
  /\ pc = "ar_replace"
  /\ \E ok \in BOOLEAN :
       IF ok
         THEN /\ install_path' = tmp_dest
              /\ tmp_dest' = "absent"
              /\ hist' = [hist EXCEPT !.replace = "ok",
                                      !.live_replace = running]
              /\ Goto("cleanup")
         ELSE /\ UNCHANGED << install_path, tmp_dest >>
              /\ hist' = [hist EXCEPT !.ar_stage = "replace"]
              /\ Goto("ar_except")
  /\ UNCHANGED << candidate, backup_dir, env, fixed, locals >>

\* variant: the except clause returns False without removing dest + '.new'
ar_except_keeps_staging ==
  /\ pc = "ar_except"
  /\ hist' = [hist EXCEPT !.replace = "failed"]
  /\ Goto("rollback")
  /\ UNCHANGED << disk, env, fixed, locals >>

\* atomic_replace, lines 223-231: remove dest + '.new', return False
ar_except ==
  /\ pc = "ar_except"
  /\ tmp_dest' = "absent"
  /\ hist' = [hist EXCEPT !.replace = "failed"]
  /\ Goto("rollback")
  /\ UNCHANGED << install_path, candidate, backup_dir, env, fixed, locals >>

\* lines 320-326: shutil.copy2(backup_created, install_path) opens the
\* install path for writing, or fails before it does
Rollback ==
  /\ pc = "rollback"
  /\ IF backup_created = NoBackup
       THEN /\ outcome' = "ReplaceFailed"
            /\ pc' = "failexit"
            /\ UNCHANGED << install_path, hist >>
       ELSE \E opened \in BOOLEAN :
              IF opened
                THEN /\ install_path' = "part"
                     /\ pc' = "rb_copying"
                     /\ UNCHANGED << outcome, hist >>
                ELSE /\ hist' = [hist EXCEPT !.rollback = "failed"]
                     /\ outcome' = "RollbackFailed"
                     /\ pc' = "failexit"
                     /\ UNCHANGED install_path
  /\ UNCHANGED << candidate, tmp_dest, backup_dir, env, fixed, locals,
                  exitCode, unhandled >>

\* variant: the rollback restores the first file of the backup directory
\* instead of the backup of this run
rb_copying_oldest ==
  /\ pc = "rb_copying"
  /\ \E ok \in BOOLEAN :
       IF ok
         THEN /\ install_path' = backup_dir[0]
              /\ hist' = [hist EXCEPT !.rollback = "ok"]
              /\ outcome' = "RolledBack"
         ELSE /\ UNCHANGED install_path
              /\ hist' = [hist EXCEPT !.rollback = "failed"]
              /\ outcome' = "RollbackFailed"
  /\ pc' = "failexit"
  /\ UNCHANGED << candidate, tmp_dest, backup_dir, env, fixed, locals,
                  exitCode, unhandled >>

\* variant: "Rollback succeeded." is logged whether or not the copy raised
rb_copying_logs_success ==
  /\ pc = "rb_copying"
  /\ \E ok \in BOOLEAN :
       IF ok
         THEN /\ install_path' = backup_dir[backup_created]
              /\ hist' = [hist EXCEPT !.rollback = "ok"]
         ELSE /\ UNCHANGED install_path
              /\ hist' = [hist EXCEPT !.rollback = "failed"]
  /\ outcome' = "RolledBack"
  /\ pc' = "failexit"
  /\ UNCHANGED << candidate, tmp_dest, backup_dir, env, fixed, locals,
                  exitCode, unhandled >>

\* lines 323-326: the rollback copy ends ("Rollback succeeded.") or fails
\* part-way ("Rollback failed: ...")
rb_copying ==
  /\ pc = "rb_copying"
  /\ \E ok \in BOOLEAN :
       IF ok
         THEN /\ install_path' = backup_dir[backup_created]
              /\ hist' = [hist EXCEPT !.rollback = "ok"]
              /\ outcome' = "RolledBack"
         ELSE /\ UNCHANGED install_path
              /\ hist' = [hist EXCEPT !.rollback = "failed"]
              /\ outcome' = "RollbackFailed"
  /\ pc' = "failexit"
  /\ UNCHANGED << candidate, tmp_dest, backup_dir, env, fixed, locals,
                  exitCode, unhandled >>

\* variant: sys.exit(0) after a failed replace
FailExit_zero ==
  /\ pc = "failexit"
  /\ RemoveOrRaise(ExitSuccess, outcome)
  /\ UNCHANGED << install_path, tmp_dest, backup_dir, env, fixed, locals,
                  hist >>

\* lines 327-328
FailExit ==
  /\ pc = "failexit"
  /\ RemoveOrRaise(ExitFailure, outcome)
  /\ UNCHANGED << install_path, tmp_dest, backup_dir, env, fixed, locals,
                  hist >>

\* lines 331-337: remove the candidate (errors ignored), return
Cleanup ==
  /\ pc = "cleanup"
  /\ candidate' = "absent"
  /\ Exit(ExitSuccess, "Success")
  /\ UNCHANGED << install_path, tmp_dest, backup_dir, env, fixed, locals,
                  hist >>

\* ---- environment ----------------------------------------------------------

\* the process named by a taskkill request that was accepted goes away
ProcessDies ==
  /\ pc /= "done"
  /\ dying /\ running
  /\ running' = FALSE
  /\ dying' = FALSE
  /\ UNCHANGED << pc, disk, fixed, locals, hist, now, restarts, exitCode,
                  outcome, unhandled >>

\* the environment (a service manager, the user) starts the application
ProcessStarts ==
  /\ pc /= "done"
  /\ os_name = "nt"
  /\ ~running
  /\ restarts < MaxRestarts
  /\ running' = TRUE
  /\ restarts' = restarts + 1
  /\ UNCHANGED << pc, disk, fixed, locals, hist, now, dying, exitCode,
                  outcome, unhandled >>

\* a second passes
Tick ==
  /\ pc /= "done"
  /\ now < MaxClock
  /\ now' = now + 1
  /\ UNCHANGED << pc, disk, fixed, locals, hist, running, dying, restarts,
                  exitCode, outcome, unhandled >>

\* somebody else removes the candidate from the temporary directory
TempCleaner ==
  /\ pc /= "done"
  /\ download_path = "tmp"
  /\ isfile(candidate)
  /\ candidate' = "absent"
  /\ UNCHANGED << pc, install_path, tmp_dest, backup_dir, env, fixed, locals,
                  hist, exitCode, outcome, unhandled >>

Next ==
  \/ CheckConfig
  \/ FetchReference
  \/ download_to_temp
  \/ VerifyChecksum
  \/ UpToDateCheck
  \/ ConfirmUpdate
  \/ TerminateEntry
  \/ TaskKill
  \/ PollProcess
  \/ TerminateResult
  \/ AbortNotStopped
  \/ BackupStep
  \/ bk_mkdirs
  \/ bk_copy
  \/ bk_copying
  \/ AbortBackupFailed
  \/ ar_mkdirs
  \/ ar_copy
  \/ ar_copying
  \/ ar_replace
  \/ ar_except
  \/ Rollback
  \/ rb_copying
  \/ FailExit
  \/ Cleanup
  \/ ProcessDies
  \/ ProcessStarts
  \/ Tick
  \/ TempCleaner

Spec == Init /\ [][Next]_vars

\* ---- properties -----------------------------------------------------------

Done == pc = "done"

InAtomicReplace ==
  pc \in {"ar_mkdirs", "ar_copy", "ar_copying", "ar_replace", "ar_except"}

ReplaceFailedWithBackup ==
  Done /\ hist.replace = "failed" /\ backup_created /= NoBackup

\* C1: when the digest of the candidate differs from the reference digest
\* (compared without regard to case) the run has ended with ChecksumMismatch
\* and a failure exit, the install path and the backup directory are as they
\* were, no terminate request was issued and the candidate is gone; and the
\* install path differs from its initial content only in runs whose
\* candidate digest matched the reference.
C1_MismatchAborts ==
  /\ (new_digest /= NoDigest /\ Lower(new_digest) /= Lower(expected_digest))
       => /\ Done
          /\ outcome = "ChecksumMismatch"
          /\ exitCode = ExitFailure
          /\ install_path = preInstall
          /\ tmp_dest = "absent"
          /\ backup_dir = preBackups
          /\ ~hist.kill
          /\ candidate = "absent"
  /\ (install_path /= preInstall \/ hist.replace /= "none")
       => /\ new_digest /= NoDigest
          /\ Lower(new_digest) = Lower(expected_digest)

\* C1 witness: a run over an installed, running application ended with
\* ChecksumMismatch
C1_Witness ==
  /\ Done
  /\ outcome = "ChecksumMismatch"
  /\ Lower(new_digest) /= Lower(expected_digest)
  /\ isfile(preInstall)
  /\ running

\* C2: during atomic_replace the install path keeps the complete content it
\* had before, whatever the state of the staging file, and once os.replace
\* succeeded it holds the complete content of the candidate.
C2_DestOldOrNew ==
  /\ InAtomicReplace => install_path = preInstall
  /\ hist.replace = "ok"
       => /\ install_path = src_open
          /\ install_path \in Blobs
          /\ sha256_of_file(install_path) = new_digest

\* C2 witness: atomic_replace failed with a partly written staging file
\* beside an installed file
C2_Witness ==
  /\ pc = "ar_except"
  /\ tmp_dest = "part"
  /\ isfile(preInstall)
  /\ install_path = preInstall

C4_UpToDateNoChange ==
  hist.uptodate
    => /\ Done
       /\ outcome = "AlreadyUpToDate"
       /\ exitCode = ExitSuccess
       /\ ~hist.asked
       /\ ~hist.kill
       /\ backup_dir = preBackups
       /\ install_path = preInstall
       /\ candidate = "absent"

\* C5: when terminate_process returned False the run goes nowhere but to
\* the ProcessNotStopped exit: the backup directory and the install path are
\* as they were, the exit is a failure and the candidate is gone; and
\* atomic_replace is entered only after terminate_process returned True.
C5_NotStoppedAborts ==
  /\ hist.guard = "StillRunning"
       => /\ pc \in {"notstopped", "done"}
          /\ backup_dir = preBackups
          /\ install_path = preInstall
          /\ hist.replace = "none"
          /\ Done => /\ outcome = "ProcessNotStopped"
                     /\ exitCode = ExitFailure
                     /\ candidate = "absent"
  /\ (hist.replace /= "none" \/ InAtomicReplace) => hist.guard = "Stopped"

\* C5 witness: the process survived taskkill and all polls
C5_Witness ==
  /\ Done
  /\ hist.guard = "StillRunning"
  /\ hist.kill
  /\ polls = MaxPolls
  /\ running
  /\ outcome = "ProcessNotStopped"

\* C6: when an installed file existed at the backup step, atomic_replace is
\* entered only with a complete backup of it in the backup directory; as
\* long as there is none the install path is as it was, and a failed backup
\* ends the run with BackupFailed, a failure exit and the candidate gone.
C6_BackupBeforeReplace ==
  /\ (hist.had_install /\ (InAtomicReplace \/ hist.replace /= "none"))
       => /\ backup_created /= NoBackup
          /\ backup_dir[backup_created] = preInstall
  /\ (hist.had_install /\ backup_created = NoBackup)
       => /\ pc \in {"bk_mkdirs", "bk_copy", "bk_copying", "backupfailed",
                     "done"}
          /\ install_path = preInstall
          /\ Done => /\ outcome = "BackupFailed"
                     /\ exitCode = ExitFailure
                     /\ candidate = "absent"
  /\ (Done /\ outcome = "BackupFailed") => hist.replace = "none"

\* C6 witness: a backup failed part-way and the run ended BackupFailed
C6_Witness ==
  /\ Done
  /\ outcome = "BackupFailed"
  /\ hist.had_install
  /\ backup_path /= NoBackup
  /\ backup_dir[backup_path] = "part"

\* C7: after a run, no candidate temporary file is left on disk.
C7_NoCandidateLeft ==
  Done => candidate = "absent"

AbortReasons ==
  { "ConfigMissing", "ReferenceUnavailable", "DownloadFailed",
    "ChecksumMismatch", "UserDeclined", "ProcessNotStopped", "BackupFailed",
    "ReplaceFailed", "RolledBack", "RollbackFailed" }

\* C8 as stated: Success and AlreadyUpToDate exit with the success code and
\* every abort reason, UserDeclined among them, with another code.
C8_Original ==
  Done => /\ outcome \in {"Success", "AlreadyUpToDate"}
               => exitCode = ExitSuccess
          /\ outcome \in AbortReasons => exitCode /= ExitSuccess

\* C8 amended: Success and AlreadyUpToDate exit with the success code, every
\* abort reason but UserDeclined exits with the failure code, and a declined
\* run exits with the success code unless its cleanup raised.
C8_ExitCodes ==
  Done => /\ outcome \in {"Success", "AlreadyUpToDate"}
               => exitCode = ExitSuccess
          /\ outcome \in AbortReasons \ {"UserDeclined"}
               => exitCode = ExitFailure
          /\ outcome = "UserDeclined"
               => exitCode = (IF unhandled THEN ExitFailure ELSE ExitSuccess)

\* C8 witness: a declined run ended with the success code
C8_Witness ==
  /\ Done
  /\ outcome = "UserDeclined"
  /\ exitCode = ExitSuccess
  /\ hist.asked

\* C9 as stated: a failed rollback ends with an exit code other than the
\* one that ends a run whose rollback succeeded (ExitFailure, see C9
\* amended).
C9_Original ==
  (Done /\ outcome = "RollbackFailed") => exitCode /= ExitFailure

\* C9 amended: after a failed replace the logged outcome tells the three
\* cases apart (RolledBack exactly when the rollback copy succeeded,
\* RollbackFailed exactly when it failed, ReplaceFailed exactly when there
\* was no backup), and all three end with the same exit code.
C9_OutcomeByLogOnly ==
  (Done /\ hist.replace = "failed")
    => /\ exitCode = ExitFailure
       /\ outcome \in {"RolledBack", "RollbackFailed", "ReplaceFailed"}
       /\ outcome = "RolledBack" <=> hist.rollback = "ok"
       /\ outcome = "RollbackFailed" <=> hist.rollback = "failed"
       /\ outcome = "ReplaceFailed" <=> backup_created = NoBackup

\* C9 witness: a run ended after a rollback that failed part-way
C9_Witness ==
  /\ Done
  /\ outcome = "RollbackFailed"
  /\ install_path = "part"
  /\ exitCode = ExitFailure

\* C10: os.replace never succeeds on the install path while the protected
\* process is running, stated for the runs the claim singles out: those in
\* which no process-list query failed, so that only a start of the
\* application after the last check of the guard can have it running.
C10_NoLiveReplace ==
  ~hist.blind => ~hist.live_replace

\* C11: when the run has ended, the install path is not a partly written
\* file: it holds the complete content it had at the start (absent on a
\* first install) or, after a successful replace, the complete candidate.
C11_NeverTruncated ==
  Done => /\ install_path /= "part"
          /\ \/ install_path = preInstall
             \/ hist.replace = "ok" /\ install_path = src_open

\* C12: when atomic_replace has returned False, whichever of makedirs, the
\* staging copy and os.replace raised, the staging file does not exist and
\* the install path has the content it had when atomic_replace was called;
\* atomic_replace returns False exactly when one of the three raised.
C12_FailedReplaceLeavesDest ==
  /\ hist.replace = "failed"
       => /\ hist.ar_stage \in {"makedirs", "copy", "replace"}
          /\ tmp_dest = "absent"
          /\ pc = "rollback" => install_path = preInstall
  /\ pc = "rollback" => hist.replace = "failed"
  /\ hist.replace = "ok" => hist.ar_stage = "none"

\* C12 witness: atomic_replace returned False after os.replace raised with
\* the staging file complete
C12_Witness ==
  /\ pc = "rollback"
  /\ hist.replace = "failed"
  /\ hist.ar_stage = "replace"
  /\ isfile(preInstall)
  /\ src_open \in Blobs
  /\ tmp_dest = "absent"

CleanupOutcomes ==
  { "ChecksumMismatch", "AlreadyUpToDate", "UserDeclined",
    "ProcessNotStopped", "BackupFailed", "ReplaceFailed", "RolledBack",
    "RollbackFailed", "Success" }

\* C13: a run that reached the cleanup of one of its exit paths ends without
\* an uncaught exception and with the outcome and exit code of that path,
\* also when the candidate file was already absent; so a declined run
\* exits with the success code.
C13_CleanupNeverRaises ==
  /\ (Done /\ outcome \in CleanupOutcomes) => ~unhandled
  /\ (Done /\ outcome = "UserDeclined") => exitCode = ExitSuccess

\* C14: as long as the user has not confirmed, no terminate request was
\* issued, the guard did not run, the backup directory, the install path and
\* the staging file are as they were and atomic_replace was not entered; a
\* declined run has ended with the outcome UserDeclined and the candidate
\* gone.
C14_NothingBeforeConfirm ==
  /\ ~hist.confirmed
       => /\ ~hist.kill
          /\ hist.guard = "none"
          /\ backup_dir = preBackups
          /\ backup_path = NoBackup
          /\ install_path = preInstall
          /\ tmp_dest = "absent"
          /\ hist.replace = "none"
          /\ pc \in {"start", "fetchref", "download", "hash", "uptodate",
                     "confirm", "done"}
  /\ (hist.asked /\ ~hist.confirmed /\ outcome /= "ConfirmFailed")
       => /\ Done
          /\ outcome = "UserDeclined"
          /\ candidate = "absent"

\* C14 witness: the user declined the update of an installed, running
\* application
C14_Witness ==
  /\ Done
  /\ outcome = "UserDeclined"
  /\ hist.asked
  /\ ~hist.confirmed
  /\ isfile(preInstall)
  /\ running
  /\ exitCode = ExitSuccess

\* position of each program point in the order of main()
Rank(l) ==
  CASE l = "start" -> 0
    [] l = "fetchref" -> 1
    [] l = "download" -> 2
    [] l = "hash" -> 3
    [] l = "uptodate" -> 4
    [] l = "confirm" -> 5
    [] l = "terminate" -> 6
    [] l = "taskkill" -> 7
    [] l = "poll" -> 8
    [] l = "tp_final" -> 9
    [] l = "notstopped" -> 10
    [] l = "backup" -> 11
    [] l = "bk_mkdirs" -> 12
    [] l = "bk_copy" -> 13
    [] l = "bk_copying" -> 14
    [] l = "backupfailed" -> 15
    [] l = "ar_mkdirs" -> 16
    [] l = "ar_copy" -> 17
    [] l = "ar_copying" -> 18
    [] l = "ar_replace" -> 19
    [] l = "ar_except" -> 20
    [] l = "rollback" -> 21
    [] l = "rb_copying" -> 22
    [] l = "failexit" -> 23
    [] l = "cleanup" -> 24
    [] OTHER -> 25

\* a step of main() moves forward in the order of the steps; the only
\* thing repeated is the poll of the process list, counted by polls
StepsForward ==
  \/ Rank(pc') > Rank(pc)
  \/ pc = "poll" /\ pc' = "poll" /\ polls' = polls + 1
  \/ pc' = pc /\ UNCHANGED << install_path, tmp_dest, backup_dir, locals,
                              hist, exitCode, outcome, unhandled >>

\* each step is entered only after the step before it succeeded, and the
\* backup is left out only when there is no installed file
StepsInOrder ==
  /\ Rank(pc) \in 1..24 => cfg = "ok"
  /\ Rank(pc) \in 2..24 => expected_digest /= NoDigest
  /\ Rank(pc) \in 3..24 => download_path = "tmp"
  /\ Rank(pc) \in 4..24 => hist.verified
  /\ Rank(pc) \in 6..24 => hist.confirmed
  /\ Rank(pc) \in 11..24 => hist.guard = "Stopped"
  /\ Rank(pc) \in 16..24
       => \/ hist.had_install /\ backup_created /= NoBackup
          \/ ~hist.had_install /\ backup_path = NoBackup
                               /\ install_path \in {"absent", src_open}
  /\ pc = "cleanup" => hist.replace = "ok"
  /\ hist.replace = "failed" => pc \in {"rollback", "rb_copying",
                                        "failexit", "done"}

\* C15: the steps of a run are taken in the fixed order, none twice, each
\* only after the one before it succeeded, the backup alone may be left out
\* (when no installed file exists), and a run that found the installed file
\* up to date ends there instead of going on to the confirmation.
C15_FixedOrder ==
  /\ [](StepsInOrder /\ (hist.uptodate => Done))
  /\ [][StepsForward]_vars

\* what holds of terminate_process in every state: the loop counter is
\* bounded, without a terminate request nothing was polled, and a terminate
\* request that raised gave False at once
GuardBounded ==
  /\ polls \in 0..MaxPolls
  /\ ~hist.kill => polls = 0 /\ hist.guard /= "StillRunning" /\ ~dying
  /\ hist.kill_raised
       => /\ hist.guard = "StillRunning"
          /\ polls = 0
          /\ pc \in {"notstopped", "done"}

\* the steps of terminate_process up to its last check: True at once when
\* the first query does not show the process, else one terminate request
\* and a poll loop that is left when a query does not show the process or
\* after MaxPolls sleeps
GuardSteps ==
  /\ (pc = "terminate" /\ pc' /= pc)
       => \/ /\ pc' = "backup"
             /\ hist'.guard = "Stopped" /\ ~hist'.kill
             /\ ~running \/ hist'.blind
          \/ pc' = "taskkill" /\ running /\ hist' = hist
  /\ (pc = "taskkill" /\ pc' /= pc) => ~hist.kill /\ hist'.kill
  /\ hist.kill => hist'.kill /\ pc' /= "taskkill"
  /\ (pc = "poll" /\ pc' = "poll" /\ polls' /= polls)
       => running /\ polls < MaxPolls /\ polls' = polls + 1
  /\ (pc = "poll" /\ pc' /= pc)
       => pc' = "tp_final" /\ (polls = MaxPolls \/ ~running \/ hist'.blind)

\* C16 as stated: terminate_process is bounded as above and, once the loop
\* is left, returns True if a poll found the process gone and, after the
\* last poll, False exactly if the process is still running (stated for
\* the runs in which no process-list query failed).
C16_Original ==
  /\ []GuardBounded
  /\ [][GuardSteps]_vars
  /\ [][(pc = "tp_final" /\ pc' /= pc /\ ~hist'.blind)
          => IF polls < MaxPolls
               THEN hist'.guard = "Stopped" /\ pc' = "backup"
               ELSE hist'.guard = "StillRunning" <=> running]_vars

\* C16 amended: terminate_process is bounded as above and, once the loop is
\* left, queries the process list once more and returns by that answer
\* alone: False if it shows the process, True if it does not.
C16_GuardReturns ==
  /\ []GuardBounded
  /\ [][GuardSteps]_vars
  /\ [][(pc = "tp_final" /\ pc' /= pc)
          => \/ /\ hist'.guard = "StillRunning" /\ pc' = "notstopped"
                /\ running
             \/ /\ hist'.guard = "Stopped" /\ pc' = "backup"
                /\ ~running \/ hist'.blind]_vars

\* C16 witness: a poll found the process gone, the check after the loop
\* found it running again, and terminate_process returned False
C16_Witness ==
  /\ pc = "notstopped"
  /\ hist.guard = "StillRunning"
  /\ hist.kill /\ ~hist.kill_raised
  /\ polls < MaxPolls
  /\ ~hist.blind
  /\ running

\* C17: when backup_file has returned None, the run ends with BackupFailed
\* and the backup directory holds no partly written file.
C17_NoPartialBackup ==
  (hist.had_install /\ backup_created = NoBackup
     /\ pc \in {"backupfailed", "done"})
    => /\ \A s \in Stamps : backup_dir[s] /= "part"
       /\ Done => outcome = "BackupFailed"

\* backup files of this run: names that did not exist when it started
NewBackups == { s \in Stamps : ~isfile(preBackups[s]) /\ isfile(backup_dir[s]) }

\* C18: every backup file that existed when the run started is still there
\* with the same content, and when the run has ended it has added one file
\* if it entered atomic_replace with an installed file present and none
\* otherwise.
C18_BackupsOnlyAccumulate ==
  /\ \A s \in Stamps : isfile(preBackups[s]) => backup_dir[s] = preBackups[s]
  /\ Done => Cardinality(NewBackups)
               = (IF hist.had_install /\ hist.replace /= "none" THEN 1 ELSE 0)

\* C19: in a run that started without an installed file, the up-to-date
\* comparison is never true, backup_file is not called and the backup
\* directory stays as it was, atomic_replace is entered only after
\* verification, confirmation and the guard, no rollback is attempted, the
\* install path stays absent unless os.replace succeeded, and a failed
\* replace ends the run with a failure exit and the candidate gone.
C19_FirstInstall ==
  preInstall = "absent"
    => /\ ~hist.uptodate
       /\ ~hist.had_install
       /\ backup_dir = preBackups
       /\ backup_path = NoBackup /\ backup_created = NoBackup
       /\ pc \notin {"bk_mkdirs", "bk_copy", "bk_copying", "backupfailed",
                     "rb_copying"}
       /\ hist.rollback = "none"
       /\ InAtomicReplace
            => hist.verified /\ hist.confirmed /\ hist.guard = "Stopped"
       /\ IF hist.replace = "ok"
            THEN install_path = src_open /\ install_path \in Blobs
            ELSE install_path = "absent"
       /\ (Done /\ hist.replace = "failed")
            => /\ outcome = "ReplaceFailed"
               /\ exitCode = ExitFailure
               /\ candidate = "absent"

\* C19 witness: a first install whose os.replace raised has ended
C19_Witness ==
  /\ Done
  /\ preInstall = "absent"
  /\ hist.replace = "failed"
  /\ hist.ar_stage = "replace"
  /\ install_path = "absent"
  /\ outcome = "ReplaceFailed"

\* C20: when the first process-list query of terminate_process failed while
\* the process ran, terminate_process returned True without a terminate
\* request and the run is past the guard; off Windows no query is made and
\* no terminate request is ever issued.
C20_BlindGuardReportsStopped ==
  /\ (hist.blind /\ ~hist.kill)
       => /\ hist.guard = "Stopped"
          /\ polls = 0
          /\ Rank(pc) >= Rank("backup")
  /\ os_name /= "nt" => ~hist.kill /\ hist.guard \in {"none", "Stopped"}

\* C20 witness: the query failed, the guard reported Stopped, and the
\* install path was replaced under the process that ran all along
C20_Witness ==
  /\ hist.blind
  /\ ~hist.kill
  /\ hist.guard = "Stopped"
  /\ restarts = 0
  /\ running
  /\ hist.replace = "ok"
  /\ hist.live_replace
  /\ isfile(preInstall)
  /\ backup_created /= NoBackup

====
